---------------------------- MODULE Spec2Model ----------------------------
(***************************************************************************)
(* TrainTrack: model of the status-page parser (app/helpers/train_helper)  *)
(* and of the request orchestration and time-window resolver               *)
(* (app/services/train_service).                                           *)
(*                                                                         *)
(* Representation.                                                         *)
(*  - A naive datetime is the number of minutes since ordinal day 0 of the *)
(*    proleptic Gregorian calendar (date.toordinal() * 1440 + minute of    *)
(*    the day); datetime values are records [kind, v, aware].  An aware    *)
(*    value only ever carries the UTC tzinfo (a "Z" suffix).               *)
(*  - Python's None is the record None.                                    *)
(*  - A window bound string is kept in its lexical form: [fmt |-> "time",  *)
(*    h, m, z] is the text HH:MM with an optional Z, [fmt |-> "datetime",  *)
(*    y, mo, d, h, m, z] the text YYYY-MM-DDTHH:MM with an optional Z, and *)
(*    [fmt |-> "junk"] any other text.                                     *)
(*  - A cleaned status line is kept as the groups the parser's regular     *)
(*    expressions find in it (see the section on the event parser).        *)
(*  - A raw line handed to _clean_line is a sequence of lexical tokens     *)
(*    (see the section on the line normalizer).                            *)
(***************************************************************************)
EXTENDS Integers, Sequences, FiniteSets, TLC

VARIABLES
    pc,            \* position of the call being modelled
    train_number,  \* get_train_status: path parameter
    start_time,    \* start_time / start_time_raw (None or a bound string)
    end_time,      \* end_time / end_time_raw
    fetched,       \* how fetch_train_status_html ended ("no" before the call)
    html_text,     \* what fetch_train_status_html returned (the status lines)
    parsed,        \* result of parse_train_status_html
    now,           \* datetime.now() read by _compute_event_window
    local_tz,      \* UTC offset (minutes) of datetime.now().astimezone().tzinfo
    window,        \* outcome of _compute_event_window
    response,      \* outcome of get_train_status / of the pure call modelled
    calls,         \* the steps of get_train_status entered so far, in order
    line,          \* _clean_line: the raw line
    cleaned,       \* _clean_line(line)
    recleaned      \* _clean_line(cleaned)

vars == <<pc, train_number, start_time, end_time, fetched, html_text, parsed, now,
          local_tz, window, response, calls, line, cleaned, recleaned>>

None == [kind |-> "None"]

(***************************************************************************)
(* Calendar arithmetic of the datetime module.                             *)
(***************************************************************************)
MinutesPerDay == 24 * 60

IsLeap(y) == (y % 4 = 0) /\ ((y % 100 # 0) \/ (y % 400 = 0))

DaysInMonth(y, mo) ==
    IF mo = 2 THEN (IF IsLeap(y) THEN 29 ELSE 28)
    ELSE IF mo \in {4, 6, 9, 11} THEN 30 ELSE 31

RECURSIVE DaysBeforeMonth(_, _)
DaysBeforeMonth(y, mo) ==
    IF mo <= 1 THEN 0 ELSE DaysBeforeMonth(y, mo - 1) + DaysInMonth(y, mo - 1)

DaysBeforeYear(y) ==
    LET p == y - 1 IN p * 365 + (p \div 4) - (p \div 100) + (p \div 400)

\* date(y, mo, d).toordinal()
Ordinal(y, mo, d) == DaysBeforeYear(y) + DaysBeforeMonth(y, mo) + d

ValidDate(y, mo, d) ==
    /\ y \in 1..9999
    /\ mo \in 1..12
    /\ d \in 1..DaysInMonth(y, mo)

ValidTime(h, m) == h \in 0..23 /\ m \in 0..59

\* datetime(y, mo, d, h, m), naive
MkNaive(y, mo, d, h, m) ==
    [kind |-> "datetime",
     v |-> Ordinal(y, mo, d) * MinutesPerDay + h * 60 + m,
     aware |-> FALSE]

\* dt.date() as an ordinal, and datetime.combine(date, time(0, 0))
DateOf(dt) == dt.v \div MinutesPerDay
Midnight(ord) == [kind |-> "datetime", v |-> ord * MinutesPerDay, aware |-> FALSE]

\* dt.year: the year whose days hold the ordinal of dt
YearOf(dt) ==
    CHOOSE y \in (DateOf(dt) \div 366)..(DateOf(dt) \div 365 + 1) :
        /\ DaysBeforeYear(y) < DateOf(dt)
        /\ DateOf(dt) <= DaysBeforeYear(y + 1)

\* dt.month and dt.day
MonthOf(dt) ==
    LET y == YearOf(dt)
        rem == DateOf(dt) - DaysBeforeYear(y)
    IN CHOOSE mo \in 1..12 :
        /\ DaysBeforeMonth(y, mo) < rem
        /\ rem <= DaysBeforeMonth(y, mo) + DaysInMonth(y, mo)

DayOf(dt) ==
    DateOf(dt) - DaysBeforeYear(YearOf(dt)) - DaysBeforeMonth(YearOf(dt), MonthOf(dt))

(***************************************************************************)
(* Window resolver: _compute_event_window                                  *)
(***************************************************************************)
HTTPException(code, about) ==
    [tag |-> "HTTPException", status_code |-> code, detail |-> about]
TypeError == [tag |-> "TypeError"]
Returned(s, e) == [tag |-> "ok", start |-> s, end |-> e]

\* _normalize_dt: an aware datetime is converted to local wall-clock time and
\* loses its tzinfo (local_tz is the host's offset and is never None).
_normalize_dt(dt, tz) ==
    IF ~dt.aware THEN dt
    ELSE [kind |-> "datetime", v |-> dt.v + tz, aware |-> FALSE]

\* datetime.fromisoformat(s) after the Z suffix became +00:00: a value, or
\* None for ValueError.
datetime_fromisoformat(raw) ==
    IF raw.fmt = "datetime" /\ ValidDate(raw.y, raw.mo, raw.d)
                            /\ ValidTime(raw.h, raw.m)
    THEN [kind |-> "datetime",
          v |-> Ordinal(raw.y, raw.mo, raw.d) * MinutesPerDay
                + raw.h * 60 + raw.m,
          aware |-> raw.z]
    ELSE None

\* time.fromisoformat(s): a time of day, aware when an offset was written.
time_fromisoformat(raw) ==
    IF raw.fmt = "time" /\ ValidTime(raw.h, raw.m)
    THEN [kind |-> "time", min |-> raw.h * 60 + raw.m, aware |-> raw.z]
    ELSE None

\* _parse_bound: (datetime | None, time | None), or the 422 error.
_parse_bound(raw, tz) ==
    LET dt == datetime_fromisoformat(raw)
        t == time_fromisoformat(raw)
    IN IF dt # None THEN [tag |-> "ok", dt |-> _normalize_dt(dt, tz), t |-> None]
       ELSE IF t # None THEN [tag |-> "ok", dt |-> None, t |-> t]
       ELSE HTTPException(422, [what |-> "Invalid time format", raw |-> raw])

\* datetime.combine(date, time): the time's tzinfo is kept.
Combine(ord, t) ==
    [kind |-> "datetime", v |-> ord * MinutesPerDay + t.min, aware |-> t.aware]

\* dt + timedelta(days=1)
PlusOneDay(dt) == [dt EXCEPT !.v = @ + MinutesPerDay]

\* a < b on datetimes raises TypeError when exactly one of them is aware.
Comparable(a, b) == a.aware = b.aware

\* _to_datetime (lines 74-79)
_to_datetime(dt_part, t_part, base_date, nw) ==
    IF dt_part # None THEN dt_part
    ELSE IF t_part # None THEN Combine(base_date, t_part)
    ELSE nw

\* Faulty variant: the inverted pair is returned as it is.
SwapIfInverted_NoSwap(start_dt, end_dt) ==
    IF ~Comparable(end_dt, start_dt) THEN TypeError
    ELSE Returned(start_dt, end_dt)

\* Faulty variant: the midnight-span shift is applied to a single bound too.
SwapIfInverted_Shift(start_dt, end_dt) ==
    IF ~Comparable(end_dt, start_dt) THEN TypeError
    ELSE IF end_dt.v < start_dt.v THEN Returned(start_dt, PlusOneDay(end_dt))
    ELSE Returned(start_dt, end_dt)

\* if end_dt < start_dt: start_dt, end_dt = end_dt, start_dt; return both
SwapIfInverted(start_dt, end_dt) ==
    IF ~Comparable(end_dt, start_dt) THEN TypeError
    ELSE IF end_dt.v < start_dt.v THEN Returned(end_dt, start_dt)
    ELSE Returned(start_dt, end_dt)

\* Faulty variant: an inverted pair is always swapped, time-only or not.
BothProvided_AlwaysSwap(start_dt, end_dt, start_dt_raw, end_dt_raw, start_t_raw, end_t_raw) ==
    IF ~Comparable(end_dt, start_dt) THEN TypeError
    ELSE IF end_dt.v < start_dt.v THEN Returned(end_dt, start_dt)
    ELSE Returned(start_dt, end_dt)

\* lines 95-105: both bounds provided
BothProvided(start_dt, end_dt, start_dt_raw, end_dt_raw, start_t_raw, end_t_raw) ==
    IF ~Comparable(end_dt, start_dt) THEN TypeError
    ELSE IF end_dt.v < start_dt.v
         THEN IF start_dt_raw = None /\ end_dt_raw = None
                 /\ start_t_raw # None /\ end_t_raw # None
              THEN Returned(start_dt, PlusOneDay(end_dt))
              ELSE Returned(end_dt, start_dt)
         ELSE Returned(start_dt, end_dt)

NoBound == [tag |-> "ok", dt |-> None, t |-> None]

_compute_event_window(start_time_raw, end_time_raw, nw, tz) ==
    LET today == DateOf(nw)
        ps == IF start_time_raw # None THEN _parse_bound(start_time_raw, tz) ELSE NoBound
        pe == IF end_time_raw # None THEN _parse_bound(end_time_raw, tz) ELSE NoBound
    IN IF ps.tag # "ok" THEN ps
       ELSE IF pe.tag # "ok" THEN pe
       ELSE IF start_time_raw = None /\ end_time_raw = None
            THEN Returned(Midnight(today), Midnight(today + 1))
       ELSE
         LET base_date == IF ps.dt # None THEN DateOf(ps.dt)
                          ELSE IF pe.dt # None THEN DateOf(pe.dt) ELSE today
         IN IF start_time_raw = None /\ end_time_raw # None
            THEN SwapIfInverted(nw, _to_datetime(pe.dt, pe.t, base_date, nw))
            ELSE IF start_time_raw # None /\ end_time_raw = None
            THEN SwapIfInverted(_to_datetime(ps.dt, ps.t, base_date, nw), nw)
            ELSE BothProvided(_to_datetime(ps.dt, ps.t, base_date, nw),
                              _to_datetime(pe.dt, pe.t, base_date, nw),
                              ps.dt, pe.dt, ps.t, pe.t)

(***************************************************************************)
(* Event parser: parse_train_status_html and its helpers.                  *)
(*                                                                         *)
(* A cleaned line is the record of what the parser's regular expressions   *)
(* find in it:                                                             *)
(*   kw       the line-141 search for an arrive/depart word succeeds       *)
(*   form     "station_code": the line-161 pattern matches;                *)
(*            "station": it does not and the line-184 pattern matches;     *)
(*            "verb": neither does and the line-208 pattern matches;       *)
(*            "none": no (Departed|Arrived) word                           *)
(*   verb     group 1 as written (any letter case)                         *)
(*   station  the station group, a sequence of words                       *)
(*   code     the code group                                               *)
(*   date     the first \d{1,2}-[A-Za-z]{3}(-\d{4})? token: [d, mon, y],   *)
(*            or [d, mon] without a year; None without a token             *)
(*   time     the first \d{1,2}:\d{2} token: [h, m]; None without one      *)
(*   delay    group 1 of the Delay pattern, or None                        *)
(*   lu       the "Last Updates On" match: [date, time], or None           *)
(*   sd       the "Start Date :" match's date text, or None                *)
(* A str value is a record Str(s), a station name Words(w), so that each   *)
(* can be told from None.                                                  *)
(***************************************************************************)
Str(s) == [kind |-> "str", s |-> s]
Words(w) == [kind |-> "str", words |-> w]

\* the truth value of a station string: None and "" are false
Truthy(station) == station # None /\ station.words # << >>

MonthAbbr ==
    <<"Jan", "Feb", "Mar", "Apr", "May", "Jun",
      "Jul", "Aug", "Sep", "Oct", "Nov", "Dec">>

\* %b matches a month abbreviation whatever its letter case
Capitalize(mon) ==
    CASE mon \in {"JAN", "jan"} -> "Jan"
      [] mon \in {"FEB", "feb"} -> "Feb"
      [] mon \in {"DEC", "dec"} -> "Dec"
      [] OTHER -> mon

MonthNumber(mon) ==
    IF \E i \in 1..12 : MonthAbbr[i] = Capitalize(mon)
    THEN CHOOSE i \in 1..12 : MonthAbbr[i] = Capitalize(mon)
    ELSE 0

\* datetime.strptime(f"{d}-{mon}-{y} {h}:{m}", "%d-%b-%Y %H:%M"); None stands
\* for the ValueError the callers catch.
strptime(d, mon, y, h, m) ==
    IF ValidDate(y, MonthNumber(mon), d) /\ ValidTime(h, m)
    THEN MkNaive(y, MonthNumber(mon), d, h, m)
    ELSE None

\* dt.strftime("%d-%b-%Y"), as the date token it writes
strftime(dt) == [d |-> DayOf(dt), mon |-> MonthAbbr[MonthOf(dt)], y |-> YearOf(dt)]

MidnightToken == [h |-> 0, m |-> 0]

\* _parse_last_update_dt (lines 64-82): the maximum over the lines that match
\* and parse.
_parse_last_update_dt(lines) ==
    LET cand(ln) == strptime(ln.lu.date.d, ln.lu.date.mon, ln.lu.date.y,
                             (IF ln.lu.time # None THEN ln.lu.time ELSE MidnightToken).h,
                             (IF ln.lu.time # None THEN ln.lu.time ELSE MidnightToken).m)
        last_updates == {cand(lines[i]) : i \in {j \in 1..Len(lines) : lines[j].lu # None}}
                        \ {None}
    IN IF last_updates = {} THEN None
       ELSE CHOOSE x \in last_updates : \A z \in last_updates : z.v <= x.v

\* _parse_start_date (lines 85-94): the first match
_parse_start_date(lines) ==
    LET hits == {j \in 1..Len(lines) : lines[j].sd # None}
    IN IF hits = {} THEN None
       ELSE lines[CHOOSE j \in hits : \A k \in hits : j <= k].sd

\* Faulty variant: a date token without a year always gets the current year.
_build_event_dt_NowYear(date_part, time_part, last_update_dt, year) ==
    LET tp == IF time_part # None THEN time_part ELSE MidnightToken
    IN IF date_part # None
       THEN LET yr == IF "y" \in DOMAIN date_part THEN date_part.y ELSE year
            IN strptime(date_part.d, date_part.mon, yr, tp.h, tp.m)
       ELSE IF last_update_dt # None
       THEN LET ds == strftime(last_update_dt)
            IN strptime(ds.d, ds.mon, ds.y, tp.h, tp.m)
       ELSE None

\* _build_event_dt (lines 97-125); year is datetime.now().year
_build_event_dt(date_part, time_part, last_update_dt, year) ==
    LET tp == IF time_part # None THEN time_part ELSE MidnightToken
    IN IF date_part # None
       THEN LET yr == IF "y" \in DOMAIN date_part THEN date_part.y
                      ELSE IF last_update_dt # None THEN YearOf(last_update_dt)
                      ELSE year
            IN strptime(date_part.d, date_part.mon, yr, tp.h, tp.m)
       ELSE IF last_update_dt # None
       THEN LET ds == strftime(last_update_dt)
            IN strptime(ds.d, ds.mon, ds.y, tp.h, tp.m)
       ELSE None

\* str.title() of the matched verb
Title(verb) ==
    CASE verb \in {"Arrived", "ARRIVED", "arrived"} -> Str("Arrived")
      [] verb \in {"Departed", "DEPARTED", "departed"} -> Str("Departed")
      [] OTHER -> Str(verb)

\* line 192: re.sub(r"\b(on|at)\b$", "", station, flags=re.I).strip()
StripTrailingOnAt(station) ==
    IF Len(station) > 0 /\ station[Len(station)] \in {"on", "at", "ON", "AT", "On", "At"}
    THEN Words(SubSeq(station, 1, Len(station) - 1))
    ELSE Words(station)

\* Faulty variant: the verb-only event is kept on its type alone.
VerbOnlyAccepted_TypeOnly(ev) == ev.type # None

\* line 219: the verb-only event is kept only with a timestamp
VerbOnlyAccepted(ev) == ev.datetime # None /\ ev.type # None

\* lines 141-220: the events one line appends (none or one)
LineEvents(ln, last_update_dt, year) ==
    LET ev_dt == _build_event_dt(ln.date, ln.time, last_update_dt, year)
        ev0 == [raw |-> ln, type |-> None, station |-> None, code |-> None,
                datetime |-> None, delay |-> ln.delay]
    IN IF ~ln.kw THEN << >>
       ELSE IF ln.form = "station_code"
       THEN LET ev == [ev0 EXCEPT !.type = Title(ln.verb), !.station = Words(ln.station),
                                  !.code = Str(ln.code), !.datetime = ev_dt]
            IN IF ev.type # None /\ Truthy(ev.station) THEN <<ev>> ELSE << >>
       ELSE IF ln.form = "station"
       THEN LET ev == [ev0 EXCEPT !.type = Title(ln.verb),
                                  !.station = StripTrailingOnAt(ln.station),
                                  !.datetime = ev_dt]
            IN IF ev.type # None /\ Truthy(ev.station) THEN <<ev>> ELSE << >>
       ELSE IF ln.form = "verb"
       THEN LET ev == [ev0 EXCEPT !.type = Title(ln.verb), !.datetime = ev_dt]
            IN IF VerbOnlyAccepted(ev) THEN <<ev>> ELSE << >>
       ELSE << >>

RECURSIVE AllEvents(_, _, _)
AllEvents(lines, last_update_dt, year) ==
    IF lines = << >> THEN << >>
    ELSE LineEvents(Head(lines), last_update_dt, year)
         \o AllEvents(Tail(lines), last_update_dt, year)

\* Faulty variant: the key leaves the station out.
EventKey_NoStation(e) == <<e.type, e.datetime>>

\* line 225: the deduplication key
EventKey(e) == <<e.type, e.station, e.datetime>>

\* lines 222-229: keep the first event of each key
RECURSIVE Dedupe(_, _)
Dedupe(events, seen) ==
    IF events = << >> THEN << >>
    ELSE IF EventKey(Head(events)) \in seen THEN Dedupe(Tail(events), seen)
    ELSE <<Head(events)>> \o Dedupe(Tail(events), seen \cup {EventKey(Head(events))})

\* parse_train_status_html on the cleaned lines (lines 136-235)
parse_train_status_html(lines, year) ==
    LET last_update_dt == _parse_last_update_dt(lines)
    IN [start_date |-> _parse_start_date(lines),
        last_update |-> last_update_dt,
        events |-> Dedupe(AllEvents(lines, last_update_dt, year), {})]

(***************************************************************************)
(* Line normalizer: _clean_line.                                           *)
(*                                                                         *)
(* A raw line is a sequence of lexical tokens, each standing for its text: *)
(*   "x" a letter, "7" the digit, " " a space, "TAB" a tab, "NBSP" the     *)
(*   character U+00A0, "&" an ampersand, "amp;" "nbsp;" "#55;" the text    *)
(*   that makes a character reference when it follows an ampersand, and    *)
(*   "Last Updates On" the phrase.                                         *)
(***************************************************************************)
Whitespace == {" ", "TAB", "NBSP"}

\* the character a reference stands for: &amp; is &, &nbsp; is U+00A0 and
\* &#55; is the digit 7
CharRef(name) ==
    CASE name = "amp;" -> "&"
      [] name = "nbsp;" -> "NBSP"
      [] name = "#55;" -> "7"

IsRefName(tok) == tok \in {"amp;", "nbsp;", "#55;"}

\* html.unescape: one left-to-right pass; what a reference decodes to is not
\* scanned again
RECURSIVE unescape(_)
unescape(s) ==
    IF s = << >> THEN << >>
    ELSE IF Head(s) = "&" /\ Len(s) >= 2 /\ IsRefName(s[2])
    THEN <<CharRef(s[2])>> \o unescape(SubSeq(s, 3, Len(s)))
    ELSE <<Head(s)>> \o unescape(Tail(s))

\* line.replace("\xa0", " ")
ReplaceNbsp(s) == [i \in 1..Len(s) |-> IF s[i] = "NBSP" THEN " " ELSE s[i]]

\* re.sub(r"\s+", " ", line)
RECURSIVE Collapse(_)
Collapse(s) ==
    IF s = << >> THEN << >>
    ELSE IF Head(s) \in Whitespace
    THEN IF Len(s) >= 2 /\ s[2] \in Whitespace
         THEN Collapse(Tail(s))
         ELSE <<" ">> \o Collapse(Tail(s))
    ELSE <<Head(s)>> \o Collapse(Tail(s))

\* re.sub(r"Last Updates On(?=\d)", "Last Updates On ", line)
RECURSIVE Glue(_)
Glue(s) ==
    IF s = << >> THEN << >>
    ELSE IF Head(s) = "Last Updates On" /\ Len(s) >= 2 /\ s[2] = "7"
    THEN <<"Last Updates On", " ">> \o Glue(Tail(s))
    ELSE <<Head(s)>> \o Glue(Tail(s))

\* line.strip(" \t\n\r\u00a0")
RECURSIVE Strip(_)
Strip(s) ==
    IF s = << >> THEN << >>
    ELSE IF Head(s) \in Whitespace THEN Strip(Tail(s))
    ELSE IF s[Len(s)] \in Whitespace THEN Strip(SubSeq(s, 1, Len(s) - 1))
    ELSE s

\* Faulty variant: the references are decoded after the whitespace steps.
_clean_line_UnescapeLast(ln) == unescape(Strip(Glue(Collapse(ReplaceNbsp(ln)))))

\* _clean_line (lines 56-61)
_clean_line(ln) == Strip(Glue(Collapse(ReplaceNbsp(unescape(ln)))))

(***************************************************************************)
(* Orchestrator: get_train_status.                                         *)
(***************************************************************************)
\* Faulty variant: no train number is rejected.
TrainNumberRejected_Never(n) == FALSE

\* _validate_train_number (lines 108-115): TRUE when it raises
TrainNumberRejected(n) == n < 10000 \/ n > 99999

\* Faulty variant: the window is closed at its end.
InWindow_Closed(e, window_start, window_end) ==
    /\ e.datetime # None
    /\ window_start.v <= e.datetime.v
    /\ e.datetime.v <= window_end.v

\* line 147: the filter's condition on one event
InWindow(e, window_start, window_end) ==
    /\ e.datetime # None
    /\ window_start.v <= e.datetime.v
    /\ e.datetime.v < window_end.v

\* lines 144-148: the comparison of a parsed (naive) timestamp with an aware
\* window bound raises TypeError; an event without a timestamp is skipped
\* before any comparison.
FilterEvents(events, window_start, window_end) ==
    IF \E i \in 1..Len(events) :
          events[i].datetime # None /\ ~Comparable(window_start, events[i].datetime)
    THEN TypeError
    ELSE [tag |-> "ok",
          events |-> SelectSeq(events, LAMBDA e : InWindow(e, window_start, window_end))]

\* lines 150-155
TrainStatusResponse(n, p, events) ==
    [tag |-> "TrainStatusResponse", train_number |-> n, start_date |-> p.start_date,
     last_update |-> p.last_update, events |-> events]

(***************************************************************************)
(* Inputs.                                                                 *)
(***************************************************************************)
MaxLines == 3       \* lines of a status page handed to the parser alone
MaxHtmlLines == 3   \* lines of a status page in a whole request
MaxLen == 4         \* tokens of a raw line

RECURSIVE SeqsUpTo(_, _)
SeqsUpTo(S, n) ==
    IF n = 0 THEN {<< >>}
    ELSE LET shorter == SeqsUpTo(S, n - 1)
         IN shorter \cup {Append(q, x) : q \in {r \in shorter : Len(r) = n - 1}, x \in S}

TimeText(h, m, z) == [fmt |-> "time", h |-> h, m |-> m, z |-> z]
DateTimeText(y, mo, d, h, m, z) ==
    [fmt |-> "datetime", y |-> y, mo |-> mo, d |-> d, h |-> h, m |-> m, z |-> z]
Junk == [fmt |-> "junk"]

\* bound strings for the resolver alone: 00:00, 08:00, 09:00, 24:00 (no such
\* time), and 08:00, 09:00, 23:00 on 2026-01-15, 2026-01-16 and 2026-02-30
\* (no such date), each with and without Z; and a text in neither format
WindowBounds ==
    {TimeText(h, 0, z) : h \in {0, 8, 9, 24}, z \in BOOLEAN}
    \cup {DateTimeText(2026, md[1], md[2], h, 0, z) :
             md \in {<<1, 15>>, <<1, 16>>, <<2, 30>>}, h \in {8, 9, 23}, z \in BOOLEAN}
    \cup {Junk}

\* bound strings for a whole request
RequestBounds ==
    {TimeText(8, 0, FALSE), TimeText(9, 0, TRUE), TimeText(24, 0, FALSE),
     DateTimeText(2026, 1, 15, 9, 0, FALSE), DateTimeText(2026, 1, 14, 23, 0, TRUE), Junk}

Nows == {MkNaive(2026, 1, 15, 8, 30), MkNaive(2026, 1, 15, 9, 0), MkNaive(2026, 1, 16, 0, 0)}
RequestNows == {MkNaive(2026, 1, 15, 8, 30), MkNaive(2026, 1, 15, 9, 0)}
YearNows == {MkNaive(2026, 1, 15, 8, 30), MkNaive(2028, 3, 1, 0, 0)}
Offsets == {0, 330, 0 - 300}
TrainNumbers == {9999, 10000, 99999, 100000}

EventLine(form, verb, station, code, date, time) ==
    [kw |-> TRUE, form |-> form, verb |-> verb, station |-> station, code |-> code,
     date |-> date, time |-> time, delay |-> None, lu |-> None, sd |-> None]
AnchorLine(date, time) ==
    [kw |-> FALSE, form |-> "none", verb |-> "", station |-> << >>, code |-> "",
     date |-> date, time |-> time, delay |-> None,
     lu |-> [date |-> date, time |-> time], sd |-> None]
FullDate(d, mon, y) == [d |-> d, mon |-> mon, y |-> y]
DayMonth(d, mon) == [d |-> d, mon |-> mon]
HM(h, m) == [h |-> h, m |-> m]

\* status lines for the parser alone
ParseLines ==
    { \* Arrived at HOWRAH JN (HWH) 10:00 15-Jan-2026
      EventLine("station_code", "Arrived", <<"HOWRAH", "JN">>, "HWH",
                FullDate(15, "Jan", 2026), HM(10, 0)),
      \* ARRIVED AT HOWRAH JN AT 10:00 15-Jan-2026 (Delay: 00:10)
      [EventLine("station", "ARRIVED", <<"HOWRAH", "JN">>, "",
                 FullDate(15, "Jan", 2026), HM(10, 0)) EXCEPT !.delay = Str("00:10")],
      \* Departed from HOWRAH JN (HWH) 10:00 15-Jan
      EventLine("station_code", "Departed", <<"HOWRAH", "JN">>, "HWH",
                DayMonth(15, "Jan"), HM(10, 0)),
      \* Departed from HOWRAH JN (HWH) 31-Feb-2026
      EventLine("station_code", "Departed", <<"HOWRAH", "JN">>, "HWH",
                FullDate(31, "Feb", 2026), None),
      \* Departed from ASANSOL on 25:00
      EventLine("station", "Departed", <<"ASANSOL">>, "", None, HM(25, 0)),
      \* Arrived at at on 15-Jan-2026
      EventLine("station", "Arrived", <<"at">>, "", FullDate(15, "Jan", 2026), None),
      \* Departed
      EventLine("verb", "Departed", << >>, "", None, None),
      \* Departed 10:00
      EventLine("verb", "Departed", << >>, "", None, HM(10, 0)),
      \* arrived 10:00 15-Jan-2026
      EventLine("verb", "arrived", << >>, "", FullDate(15, "Jan", 2026), HM(10, 0)),
      \* Arriving shortly
      EventLine("none", "", << >>, "", None, None),
      \* Last Updates On 15-Jan-2026 10:00
      AnchorLine(FullDate(15, "Jan", 2026), HM(10, 0)),
      \* Last Updates On 16-Jan-2026, with Start Date : 15-Jan-2026
      [AnchorLine(FullDate(16, "Jan", 2026), None) EXCEPT !.sd = Str("15-Jan-2026")] }

\* status lines whose date and time tokens vary, for the timestamp rule
DateTokens ==
    {FullDate(d, mon, y) : d \in {29, 31}, mon \in {"Feb", "jan", "Xyz"}, y \in {2024, 2025}}
    \cup {DayMonth(d, mon) : d \in {29, 31}, mon \in {"Feb", "jan", "Xyz"}}
TimeTokens == {HM(9, 5), HM(24, 0), HM(9, 60)}
TimestampLines ==
    {EventLine(f[1], "Arrived", f[2], f[3], date, time) :
        f \in {<<"station_code", <<"ASANSOL">>, "ASN">>, <<"station", <<"ASANSOL">>, "">>,
               <<"verb", << >>, "">>},
        date \in DateTokens \cup {None}, time \in TimeTokens \cup {None}}
TimestampAnchors ==
    {AnchorLine(FullDate(29, "Feb", 2024), HM(10, 0)), AnchorLine(FullDate(15, "Jan", 2026), None),
     AnchorLine(FullDate(30, "Feb", 2026), HM(10, 0))}

\* status lines of a whole request
RequestLines ==
    { \* Arrived at HOWRAH JN (HWH) 15-Jan-2026
      EventLine("station_code", "Arrived", <<"HOWRAH", "JN">>, "HWH",
                FullDate(15, "Jan", 2026), None),
      \* Departed from HOWRAH JN (HWH) 08:00 15-Jan-2026
      EventLine("station_code", "Departed", <<"HOWRAH", "JN">>, "HWH",
                FullDate(15, "Jan", 2026), HM(8, 0)),
      \* Arrived at ASANSOL at 16-Jan-2026
      EventLine("station", "Arrived", <<"ASANSOL">>, "", FullDate(16, "Jan", 2026), None),
      \* Departed from ASANSOL on 31-Feb
      EventLine("station", "Departed", <<"ASANSOL">>, "", DayMonth(31, "Feb"), None),
      \* Departed 09:00
      EventLine("verb", "Departed", << >>, "", None, HM(9, 0)),
      \* Last Updates On 15-Jan-2026 09:00
      AnchorLine(FullDate(15, "Jan", 2026), HM(9, 0)) }

Tokens == {"x", "7", " ", "TAB", "NBSP", "&", "amp;", "nbsp;", "#55;", "Last Updates On"}

(***************************************************************************)
(* Spec: one request through get_train_status (lines 118-155).             *)
(***************************************************************************)
Unused == <<line, cleaned, recleaned>>
Order == <<"validate", "fetch", "parse", "window", "filter">>

Init ==
    /\ pc = "validate"
    /\ train_number \in TrainNumbers
    /\ start_time \in RequestBounds \cup {None}
    /\ end_time \in RequestBounds \cup {None}
    /\ local_tz \in {0, 330}
    /\ fetched = "no" /\ html_text = << >>
    /\ parsed = None /\ now = None /\ window = None
    /\ response = None /\ calls = << >>
    /\ line = None /\ cleaned = None /\ recleaned = None

\* line 124
Validate ==
    /\ pc = "validate"
    /\ calls' = Append(calls, "validate")
    /\ IF TrainNumberRejected(train_number)
       THEN /\ pc' = "raised"
            /\ response' = HTTPException(422, [what |-> "train_number", raw |-> None])
       ELSE /\ pc' = "fetch"
            /\ UNCHANGED response
    /\ UNCHANGED <<train_number, start_time, end_time, fetched, html_text, parsed, now,
                   local_tz, window, Unused>>

\* what fetch_train_status_html (train_util.py lines 49-74) does: it returns
\* the page, or raises UpstreamError (no CSRF token) or a RequestException
\* (raise_for_status, a timeout)
FetchOutcomes ==
    {[kind |-> "html", lines |-> ls] : ls \in SeqsUpTo(RequestLines, MaxHtmlLines)}
    \cup {[kind |-> "UpstreamError", lines |-> << >>],
          [kind |-> "RequestException", lines |-> << >>]}

\* lines 126-134
Fetch ==
    /\ pc = "fetch"
    /\ calls' = Append(calls, "fetch")
    /\ \E out \in FetchOutcomes :
          /\ fetched' = out.kind
          /\ IF out.kind = "html"
             THEN /\ html_text' = out.lines
                  /\ pc' = "parse"
                  /\ UNCHANGED response
             ELSE /\ pc' = "raised"
                  /\ response' = HTTPException(502, [what |-> out.kind, raw |-> None])
                  /\ UNCHANGED html_text
    /\ UNCHANGED <<train_number, start_time, end_time, parsed, now, local_tz,
                   window, Unused>>

\* lines 136-137; the clock is read here and, within the same minute, by the
\* resolver
Parse ==
    /\ pc = "parse"
    /\ calls' = Append(calls, "parse")
    /\ \E n \in RequestNows :
          /\ now' = n
          /\ parsed' = parse_train_status_html(html_text, YearOf(n))
    /\ pc' = "window"
    /\ UNCHANGED <<train_number, start_time, end_time, fetched, html_text, local_tz,
                   window, response, Unused>>

\* lines 139-142
Window ==
    /\ pc = "window"
    /\ calls' = Append(calls, "window")
    /\ window' = _compute_event_window(start_time, end_time, now, local_tz)
    /\ IF window'.tag = "ok"
       THEN pc' = "filter" /\ UNCHANGED response
       ELSE pc' = "raised" /\ response' = window'
    /\ UNCHANGED <<train_number, start_time, end_time, fetched, html_text, parsed, now,
                   local_tz, Unused>>

\* lines 144-155
Filter ==
    /\ pc = "filter"
    /\ calls' = Append(calls, "filter")
    /\ LET kept == FilterEvents(parsed.events, window.start, window.end)
       IN IF kept.tag = "ok"
          THEN /\ pc' = "returned"
               /\ response' = TrainStatusResponse(train_number, parsed, kept.events)
          ELSE /\ pc' = "raised"
               /\ response' = kept
    /\ UNCHANGED <<train_number, start_time, end_time, fetched, html_text, parsed, now,
                   local_tz, window, Unused>>

Next == Validate \/ Fetch \/ Parse \/ Window \/ Filter

Spec == Init /\ [][Next]_vars

(***************************************************************************)
(* SpecWindow: _compute_event_window on its own.                           *)
(***************************************************************************)
InitWindow ==
    /\ pc = "window"
    /\ start_time \in WindowBounds \cup {None}
    /\ end_time \in WindowBounds \cup {None}
    /\ now \in Nows
    /\ local_tz \in Offsets
    /\ train_number = None /\ fetched = "no" /\ html_text = None
    /\ parsed = None /\ window = None
    /\ response = None /\ calls = << >>
    /\ line = None /\ cleaned = None /\ recleaned = None

WindowCall ==
    /\ pc = "window"
    /\ window' = _compute_event_window(start_time, end_time, now, local_tz)
    /\ pc' = IF window'.tag = "ok" THEN "returned" ELSE "raised"
    /\ UNCHANGED <<train_number, start_time, end_time, fetched, html_text, parsed, now,
                   local_tz, response, calls, Unused>>

NextWindow == WindowCall

SpecWindow == InitWindow /\ [][NextWindow]_vars

(***************************************************************************)
(* SpecParse, SpecTimestamp: parse_train_status_html on its own.           *)
(***************************************************************************)
InitParse ==
    /\ pc = "parse"
    /\ html_text \in SeqsUpTo(ParseLines, MaxLines)
    /\ now \in YearNows
    /\ train_number = None /\ start_time = None /\ end_time = None
    /\ local_tz = None /\ fetched = "no" /\ parsed = None /\ window = None
    /\ response = None /\ calls = << >>
    /\ line = None /\ cleaned = None /\ recleaned = None

InitTimestamp ==
    /\ pc = "parse"
    /\ html_text \in {<<ln>> : ln \in TimestampLines}
                     \cup {<<a, ln>> : a \in TimestampAnchors, ln \in TimestampLines}
    /\ now \in YearNows
    /\ train_number = None /\ start_time = None /\ end_time = None
    /\ local_tz = None /\ fetched = "no" /\ parsed = None /\ window = None
    /\ response = None /\ calls = << >>
    /\ line = None /\ cleaned = None /\ recleaned = None

ParseCall ==
    /\ pc = "parse"
    /\ parsed' = parse_train_status_html(html_text, YearOf(now))
    /\ pc' = "returned"
    /\ UNCHANGED <<train_number, start_time, end_time, fetched, html_text, now, local_tz,
                   window, response, calls, Unused>>

NextParse == ParseCall

SpecParse == InitParse /\ [][NextParse]_vars

SpecTimestamp == InitTimestamp /\ [][NextParse]_vars

(***************************************************************************)
(* SpecClean: _clean_line applied to a raw line, then to its own result.   *)
(***************************************************************************)
InitClean ==
    /\ pc = "clean"
    /\ line \in SeqsUpTo(Tokens, MaxLen)
    /\ cleaned = None /\ recleaned = None
    /\ train_number = None /\ start_time = None /\ end_time = None
    /\ fetched = "no" /\ html_text = None /\ now = None /\ local_tz = None
    /\ parsed = None
    /\ window = None /\ response = None /\ calls = << >>

CleanOnce ==
    /\ pc = "clean"
    /\ cleaned' = _clean_line(line)
    /\ pc' = "cleaned"
    /\ UNCHANGED <<train_number, start_time, end_time, fetched, html_text, parsed, now,
                   local_tz, window, response, calls, line, recleaned>>

CleanAgain ==
    /\ pc = "cleaned"
    /\ recleaned' = _clean_line(cleaned)
    /\ pc' = "recleaned"
    /\ UNCHANGED <<train_number, start_time, end_time, fetched, html_text, parsed, now,
                   local_tz, window, response, calls, line, cleaned>>

NextClean == CleanOnce \/ CleanAgain

SpecClean == InitClean /\ [][NextClean]_vars

(***************************************************************************)
(* Properties.                                                             *)
(***************************************************************************)
\* What a bound string says, read off its text: whether it carries a date,
\* and the local wall-clock minute it names once placed on day `base` (a
\* date-carrying bound written with Z is a UTC instant, local_tz minutes
\* behind the local wall clock).
HasDate(raw) == raw.fmt = "datetime"
BoundAt(raw, base) ==
    IF HasDate(raw)
    THEN Ordinal(raw.y, raw.mo, raw.d) * MinutesPerDay + raw.h * 60 + raw.m
         + (IF raw.z THEN local_tz ELSE 0)
    ELSE base * MinutesPerDay + raw.h * 60 + raw.m
Today == now.v \div MinutesPerDay
WindowIs(s, e) == window.start.v = s /\ window.end.v = e

\* C1: whenever _compute_event_window returns a pair, whatever the two bounds
\* (absent, time-only, full datetime) and the current time, start <= end.
C1_StartNotAfterEnd ==
    pc = "returned" =>
        /\ window.start.aware = window.end.aware
        /\ window.start.v <= window.end.v

\* C1 witness: inverted full datetimes were given and a window came back.
C1_Witness ==
    /\ pc = "returned"
    /\ start_time = DateTimeText(2026, 1, 16, 9, 0, FALSE)
    /\ end_time = DateTimeText(2026, 1, 15, 8, 0, FALSE)
    /\ window.start.v < window.end.v

\* C2: with both bounds given, a time-only bound is placed on the shared base
\* date (the start's own date, else the end's own date, else today); if then
\* end < start and both were time-only, start is kept and end moves forward
\* exactly one day; if end < start and a bound carried a date, the two are
\* swapped; if end >= start the pair is returned as it is.
C2_BothBounds ==
    (pc = "returned" /\ start_time # None /\ end_time # None) =>
        LET base == IF HasDate(start_time) THEN BoundAt(start_time, 0) \div MinutesPerDay
                    ELSE IF HasDate(end_time) THEN BoundAt(end_time, 0) \div MinutesPerDay
                    ELSE Today
            s0 == BoundAt(start_time, base)
            e0 == BoundAt(end_time, base)
        IN IF e0 < s0
           THEN IF ~HasDate(start_time) /\ ~HasDate(end_time)
                THEN WindowIs(s0, e0 + MinutesPerDay) /\ window.start.v < window.end.v
                ELSE WindowIs(e0, s0)
           ELSE WindowIs(s0, e0)

\* C2 witness: start=09:00, end=08:00 gave end = base date + 1 day at 08:00.
C2_Witness ==
    /\ pc = "returned"
    /\ start_time = TimeText(9, 0, FALSE)
    /\ end_time = TimeText(8, 0, FALSE)
    /\ WindowIs(Today * MinutesPerDay + 9 * 60, (Today + 1) * MinutesPerDay + 8 * 60)

\* C3: with no bound the window is [today 00:00, tomorrow 00:00); with only an
\* end bound it is made of now and the parsed end (a time-only end on today's
\* date), with only a start bound of the parsed start and now, the smaller of
\* the two first; the one-day shift is never applied.
C3_AtMostOneBound ==
    (pc = "returned" /\ (start_time = None \/ end_time = None)) =>
        IF start_time = None /\ end_time = None
        THEN WindowIs(Today * MinutesPerDay, (Today + 1) * MinutesPerDay)
        ELSE LET b == BoundAt(IF start_time = None THEN end_time ELSE start_time, Today)
             IN IF b < now.v THEN WindowIs(b, now.v) ELSE WindowIs(now.v, b)

\* C3 witness: only end=08:00 at 08:30: the two are swapped, nothing shifted.
C3_Witness ==
    /\ pc = "returned"
    /\ start_time = None
    /\ end_time = TimeText(8, 0, FALSE)
    /\ now = MkNaive(2026, 1, 15, 8, 30)
    /\ WindowIs(now.v - 30, now.v)

\* C4: the events get_train_status returns are exactly the parsed events, in
\* parser order, with a timestamp t such that window_start <= t < window_end;
\* an event without a timestamp is never returned.
C4_FilterHalfOpen ==
    pc = "returned" =>
        /\ response.events =
              SelectSeq(parsed.events,
                        LAMBDA e : /\ e.datetime # None
                                   /\ window.start.v <= e.datetime.v
                                   /\ e.datetime.v < window.end.v)
        /\ \A i \in 1..Len(response.events) : response.events[i].datetime # None

\* C4 witness: an event at exactly window_start was kept, one at exactly
\* window_end and one without a timestamp were dropped.
C4_Witness ==
    /\ pc = "returned"
    /\ Len(response.events) = 1
    /\ response.events[1].datetime.v = window.start.v
    /\ \E i \in 1..Len(parsed.events) :
          parsed.events[i].datetime # None /\ parsed.events[i].datetime.v = window.end.v
    /\ \E i \in 1..Len(parsed.events) : parsed.events[i].datetime = None

\* A bound string in one of the accepted formats: HH:MM or an ISO datetime,
\* with or without Z, naming a time (and date) that exists.
AcceptedFormat(raw) ==
    \/ raw.fmt = "time" /\ ValidTime(raw.h, raw.m)
    \/ raw.fmt = "datetime" /\ ValidDate(raw.y, raw.mo, raw.d) /\ ValidTime(raw.h, raw.m)

\* C5: once the page is fetched, the only failure is the invalid window bound:
\* resolution and filtering fail only if a supplied bound is in neither
\* accepted format, and then with the 422 error carrying that raw string.
C5_OnlyInvalidBoundFails ==
    (pc = "raised" /\ fetched = "html") =>
        /\ response.tag = "HTTPException"
        /\ response.status_code = 422
        /\ response.detail.raw \in {start_time, end_time} \ {None}
        /\ ~AcceptedFormat(response.detail.raw)

\* C6: no two returned events share (type, station, timestamp); of the events
\* the lines produce, the first of each triple is kept, in line order.
Triple(e) == <<e.type, e.station, e.datetime>>
RECURSIVE FirstOfEachTriple(_, _)
FirstOfEachTriple(all, k) ==
    IF k > Len(all) THEN << >>
    ELSE IF \E j \in 1..(k - 1) : Triple(all[j]) = Triple(all[k])
    THEN FirstOfEachTriple(all, k + 1)
    ELSE <<all[k]>> \o FirstOfEachTriple(all, k + 1)

C6_DedupFirstWins ==
    pc = "returned" =>
        /\ \A i, j \in 1..Len(parsed.events) :
              i # j => Triple(parsed.events[i]) # Triple(parsed.events[j])
        /\ parsed.events =
              FirstOfEachTriple(AllEvents(html_text, parsed.last_update, YearOf(now)), 1)

\* C6 witness: the second of three lines repeated the first line's triple
\* from another text and was dropped; the third was kept after the first.
C6_Witness ==
    /\ pc = "returned"
    /\ Len(html_text) = 3
    /\ html_text[1] # html_text[2]
    /\ Len(parsed.events) = 2
    /\ parsed.events[1].raw = html_text[1]
    /\ parsed.events[2].raw = html_text[3]
    /\ Len(AllEvents(html_text, parsed.last_update, YearOf(now))) = 3

\* C7: every returned event has a type, Arrived or Departed, and a non-empty
\* station or a timestamp; an event without a station always has a timestamp,
\* so a bare verb with no date or time token and no anchor gives no event.
C7_EventRetention ==
    pc = "returned" =>
        \A i \in 1..Len(parsed.events) :
            LET e == parsed.events[i]
            IN /\ e.type \in {Str("Arrived"), Str("Departed")}
               /\ (e.station # None /\ e.station.words # << >>) \/ e.datetime # None
               /\ e.station = None => e.datetime # None
               /\ ~(e.raw.form = "verb" /\ e.raw.date = None /\ e.raw.time = None
                    /\ parsed.last_update = None)

\* C7 witness: the bare line "Departed" with no anchor gave no event, and a
\* station-bearing event was kept without a timestamp.
C7_Witness ==
    /\ pc = "returned"
    /\ parsed.last_update = None
    /\ Len(html_text) = 2
    /\ html_text[1] = EventLine("verb", "Departed", << >>, "", None, None)
    /\ Len(parsed.events) = 1
    /\ parsed.events[1].station # None
    /\ parsed.events[1].datetime = None

\* C8: an event's timestamp is its line's date token (the year taken from
\* lastUpdate, else the current year, when the token has none) at its time
\* token (00:00 without one); without a date token the date of lastUpdate at
\* the time token; absent without date token and lastUpdate, and absent
\* whenever the combination is no calendar date and time.
ResolvedTimestamp(date, time, lastUpdate, currentYear) ==
    LET h == IF time = None THEN 0 ELSE time.h
        m == IF time = None THEN 0 ELSE time.m
    IN IF date # None
       THEN LET y == IF "y" \in DOMAIN date THEN date.y
                     ELSE IF lastUpdate # None THEN YearOf(lastUpdate)
                     ELSE currentYear
                mo == MonthNumber(date.mon)
            IN IF mo \in 1..12 /\ date.d \in 1..DaysInMonth(y, mo) /\ h < 24 /\ m < 60
               THEN [kind |-> "datetime",
                     v |-> Ordinal(y, mo, date.d) * MinutesPerDay + h * 60 + m,
                     aware |-> FALSE]
               ELSE None
       ELSE IF lastUpdate # None /\ h < 24 /\ m < 60
       THEN [kind |-> "datetime",
             v |-> (lastUpdate.v \div MinutesPerDay) * MinutesPerDay + h * 60 + m,
             aware |-> FALSE]
       ELSE None

C8_TimestampRule ==
    pc = "returned" =>
        \A i \in 1..Len(parsed.events) :
            parsed.events[i].datetime =
                ResolvedTimestamp(parsed.events[i].raw.date, parsed.events[i].raw.time,
                                  parsed.last_update, YearOf(now))

\* C8 witness: with lastUpdate in 2024 and the clock in 2026, the token
\* 29-Feb at 9:05 resolved to 2024-02-29 09:05.
C8_Witness ==
    /\ pc = "returned"
    /\ now = MkNaive(2026, 1, 15, 8, 30)
    /\ parsed.last_update = MkNaive(2024, 2, 29, 10, 0)
    /\ Len(parsed.events) = 1
    /\ parsed.events[1].raw.date = DayMonth(29, "Feb")
    /\ parsed.events[1].datetime = MkNaive(2024, 2, 29, 9, 5)

\* C9 as stated: _clean_line(_clean_line(s)) = _clean_line(s) for every line.
C9_Idempotent ==
    pc = "recleaned" => recleaned = cleaned

\* C9 as amended: _clean_line(_clean_line(s)) = _clean_line(s) for every line
\* s whose decoded text holds no character reference (decoding it once more
\* changes nothing), lines with references, non-breaking spaces and the glued
\* "Last Updates On" included.
C9_IdempotentOnceDecoded ==
    (pc = "recleaned" /\ unescape(unescape(line)) = unescape(line)) =>
        recleaned = cleaned

\* C9 witness: "Last Updates On&#55;" followed by a non-breaking space has a
\* reference, the glued phrase and U+00A0, and is normalized to a fixed point.
C9_Witness ==
    /\ pc = "recleaned"
    /\ line = <<"Last Updates On", "&", "#55;", "NBSP">>
    /\ cleaned = <<"Last Updates On", " ", "7">>
    /\ recleaned = cleaned

\* C10: the steps of get_train_status run in the order train-number check,
\* fetch, parse, window resolution, filter; no fetch is attempted for a train
\* number outside 10000-99999; a failed fetch ends the request with 502 before
\* the parser and the resolver, whatever the bounds; an invalid bound is
\* reported only when the fetch succeeded.
C10_StepOrder ==
    /\ calls = SubSeq(Order, 1, Len(calls))
    /\ (train_number < 10000 \/ train_number > 99999) => Len(calls) <= 1
    /\ fetched \in {"UpstreamError", "RequestException"} =>
          /\ pc = "raised"
          /\ calls = <<"validate", "fetch">>
          /\ response.tag = "HTTPException" /\ response.status_code = 502
    /\ (pc = "raised" /\ response.tag = "HTTPException" /\ response.status_code = 422
        /\ response.detail.what = "Invalid time format") =>
          /\ fetched = "html"
          /\ calls = <<"validate", "fetch", "parse", "window">>

\* C10 witness: the fetch failed on a request whose start bound is invalid,
\* and the request ended with 502.
C10_Witness ==
    /\ pc = "raised"
    /\ fetched = "UpstreamError"
    /\ start_time = Junk
    /\ response.status_code = 502

=============================================================================
